---------------------------- MODULE Spec2Model ----------------------------
(***************************************************************************)
(* A model of src/happiness_analyzer.py: the HappinessAnalyzer class.      *)
(*                                                                         *)
(* The CSV source is the sequence of records the csv reader yields (each a *)
(* sequence of text fields).  Floating point numbers are modelled as exact *)
(* rationals [num, den]; den = 0 encodes the IEEE special values: 0/0 is   *)
(* NaN, 1/0 is +inf, -1/0 is -inf.  Division by zero therefore yields NaN  *)
(* or an infinity and never raises, as numpy's float division does.        *)
(* A standard deviation is irrational in general, so np.std / np.nanstd    *)
(* and the z-score are represented by their squares (variance, z^2).       *)
(***************************************************************************)
EXTENDS Integers, Sequences, FiniteSets, TLC

VARIABLES csv_file, headers, country_names, regional_indicators,
          column_map, data, pc, result, loads

vars == <<csv_file, headers, country_names, regional_indicators,
          column_map, data, pc, result, loads>>

dataset == <<csv_file, headers, country_names, regional_indicators,
             column_map, data>>

(***************************************************************************)
(* Bounds of the model and program constants.                              *)
(***************************************************************************)
\* Most data rows of a source.
MaxRows == 3
\* Most fields of a record of a source whose shape varies.
MaxFields == 4
\* Most data rows of a source whose shape varies.
MaxShapeRows == 2
\* Most calls of load_data on one analyzer: the one __init__ makes and the
\* later ones of a caller.
MaxLoads == 2
\* The number of identity columns (country name, regional indicator):
\* "len(row) > 2", "row[2:]", "column_map[column_name] - 2", "headers[2:]".
IdentityColumns == 2

(***************************************************************************)
(* Numbers.                                                                *)
(***************************************************************************)
Abs(n) == IF n < 0 THEN -n ELSE n

Sign(n) == IF n > 0 THEN 1 ELSE IF n < 0 THEN -1 ELSE 0

RECURSIVE GCD(_, _)
GCD(a, b) == IF b = 0 THEN a ELSE GCD(b, a % b)

\* The number n/d in lowest terms, with a positive denominator; n/0 is a
\* special value (NaN for n = 0, otherwise an infinity of n's sign).
Rat(n, d) ==
    IF d = 0 THEN [num |-> Sign(n), den |-> 0]
    ELSE LET g == GCD(Abs(n), Abs(d))
         IN  [num |-> Sign(d) * (n \div g), den |-> Abs(d) \div g]

Num(k) == [num |-> k, den |-> 1]

NaN == [num |-> 0, den |-> 0]

\* np.isnan
isnan(x) == x.den = 0 /\ x.num = 0

NotNaN(x) == ~isnan(x)

RatAdd(a, b) ==
    IF isnan(a) \/ isnan(b) THEN NaN
    ELSE IF a.den = 0 /\ b.den = 0 THEN (IF a.num = b.num THEN a ELSE NaN)
    ELSE IF a.den = 0 THEN a
    ELSE IF b.den = 0 THEN b
    ELSE Rat(a.num * b.den + b.num * a.den, a.den * b.den)

RatNeg(a) == [num |-> -a.num, den |-> a.den]

RatSub(a, b) == RatAdd(a, RatNeg(b))

RatMul(a, b) ==
    IF isnan(a) \/ isnan(b) THEN NaN
    ELSE Rat(a.num * b.num, a.den * b.den)

\* Float division: x/0 is an infinity, 0/0 is NaN, nothing raises.
RatDiv(a, b) ==
    IF isnan(a) \/ isnan(b) THEN NaN
    ELSE Rat(a.num * b.den * (IF b.num < 0 THEN -1 ELSE 1),
             a.den * Abs(b.num))

\* a < b on floats: every comparison with NaN is false.
RatLt(a, b) ==
    IF isnan(a) \/ isnan(b) THEN FALSE
    ELSE IF a.den = 0 \/ b.den = 0
         THEN (a.den = 0 /\ a.num < 0 /\ ~(b.den = 0 /\ b.num < 0))
              \/ (b.den = 0 /\ b.num > 0 /\ ~(a.den = 0 /\ a.num > 0))
    ELSE a.num * b.den < b.num * a.den

RatGt(a, b) == RatLt(b, a)

RECURSIVE RatSum(_)
RatSum(s) == IF s = <<>> THEN Num(0) ELSE RatAdd(Head(s), RatSum(Tail(s)))


(***************************************************************************)
(* The sources the analyzer is constructed on.  A source is unreadable     *)
(* (open() raises) or holds the records the csv reader yields; the first   *)
(* record is the header.                                                   *)
(***************************************************************************)
SeqsUpTo(S, n) == UNION {[1..k -> S] : k \in 0..n}

Unreadable == [readable |-> FALSE, records |-> <<>>]

File(recs) == [readable |-> TRUE, records |-> recs]

FeatureNames == {"F1", "F2"}

EntityNames == {"A", "B"}

RegionNames == {"R1", "R2"}

\* Headers: the two identity names, then feature names (repeats allowed),
\* cut to any length from 0 to MaxFields.
FullHeaders ==
    {<<"Country name", "Regional indicator">> \o f :
        f \in [1..(MaxFields - IdentityColumns) -> FeatureNames]}

Headers == {SubSeq(h, 1, k) : h \in FullHeaders, k \in 0..MaxFields}

\* One record of every width from 0 to MaxFields; its cells differ from
\* column to column.
WideRecord ==
    <<"A", "R1">> \o [i \in 1..(MaxFields - IdentityColumns) |->
                        IF i % 3 = 1 THEN "1"
                        ELSE IF i % 3 = 2 THEN "2" ELSE "3"]

ShapeRecords == {SubSeq(WideRecord, 1, k) : k \in 0..MaxFields}

\* Sources of every shape: any header, rows of any widths (short rows,
\* rows narrower or wider than the header, rows of unequal widths).
ShapeSources ==
    {File(<<h>> \o rows) :
        h \in Headers, rows \in SeqsUpTo(ShapeRecords, MaxShapeRows)}

\* Sources with one feature and every combination of values, ties and
\* empty cells, for the ranking and statistics queries.
ValueRecords == {<<e, "R1", c>> : e \in EntityNames, c \in {"1", "2", ""}}

ValueSources ==
    {File(<<<<"Country name", "Regional indicator", "F1">>>> \o rows) :
        rows \in SeqsUpTo(ValueRecords, MaxRows)}

\* Sources with several regions, for the grouping queries; one entity has
\* a value, the other a cell that is not a number.
RegionRecords ==
    {<<e, r, IF e = "A" THEN "3" ELSE "n/a">> :
        e \in EntityNames, r \in RegionNames}

RegionSources ==
    {File(<<<<"Country name", "Regional indicator", "F1">>>> \o rows) :
        rows \in SeqsUpTo(RegionRecords, MaxRows)}

Sources ==
    {Unreadable, File(<<>>)} \cup ShapeSources \cup ValueSources
        \cup RegionSources

(***************************************************************************)
(* HappinessAnalyzer.__init__, lines 21-26: the fields before load_data().  *)
(***************************************************************************)
\* self.data = None
None == [shape |-> <<>>, cells |-> <<>>]

NoResult == [op |-> "", args |-> <<>>, raised |-> "", value |-> <<>>]

Init ==
    /\ csv_file \in Sources
    /\ headers = <<>>
    /\ country_names = <<>>
    /\ regional_indicators = <<>>
    /\ column_map = <<>>
    /\ data = None
    /\ pc = "init"
    /\ result = NoResult
    /\ loads = 0

(***************************************************************************)
(* load_data                                                               *)
(***************************************************************************)
\* float(val), with "except ValueError: np.nan".
ParseFloat(val) ==
    CASE val = "1" -> Num(1)
      [] val = "2" -> Num(2)
      [] val = "3" -> Num(3)
      [] OTHER -> NaN

\* for i, header in enumerate(self.headers): self.column_map[header] = i
\* (a later header of the same name overwrites the earlier position).
RECURSIVE BuildColumnMap(_, _, _)
BuildColumnMap(hs, i, map) ==
    IF i > Len(hs) THEN map
    ELSE BuildColumnMap(hs, i + 1,
            [h \in DOMAIN map \cup {hs[i]} |->
                IF h = hs[i] THEN i - 1 ELSE map[h]])

\* "if row and len(row) > 2"
Admitted(row) == Len(row) > IdentityColumns

\* row[2:] parsed cell by cell.
NumericRow(row) ==
    [j \in 1..(Len(row) - IdentityColumns) |->
        ParseFloat(row[j + IdentityColumns])]

\* np.array(rows) of a list of lists of floats.
Ragged(rows) == \E i, j \in DOMAIN rows : Len(rows[i]) /= Len(rows[j])

np_array(rows) ==
    IF rows = <<>> THEN [shape |-> <<0>>, cells |-> <<>>]
    ELSE [shape |-> <<Len(rows), Len(rows[1])>>, cells |-> rows]

Raised(op, args, exc) ==
    [op |-> op, args |-> args, raised |-> exc, value |-> <<>>]

\* load_data is called by __init__ (line 28) and, being public, by any
\* holder of the analyzer afterwards.  Nothing is reset by a call: the
\* header and the matrix are assigned, the column map is updated key by
\* key, and the names and regional indicators are appended to the lists of
\* the calls before.  The source holds the same records at every call.  An
\* exception in the call of __init__ leaves the caller without an analyzer.
load_data ==
    /\ pc \in {"init", "ready"}
    /\ loads < MaxLoads
    /\ loads' = loads + 1
    /\ UNCHANGED csv_file
    /\ IF ~csv_file.readable
       THEN \* open() raises
            /\ pc' = "failed"
            /\ result' = Raised("load_data", <<>>, "FileNotFoundError")
            /\ UNCHANGED <<headers, country_names, regional_indicators,
                           column_map, data>>
       ELSE IF csv_file.records = <<>>
       THEN \* next(reader) on a source with no record
            /\ pc' = "failed"
            /\ result' = Raised("load_data", <<>>, "StopIteration")
            /\ UNCHANGED <<headers, country_names, regional_indicators,
                           column_map, data>>
       ELSE LET hs == Head(csv_file.records)
                kept == SelectSeq(Tail(csv_file.records), Admitted)
                rows == [i \in DOMAIN kept |-> NumericRow(kept[i])]
            IN  /\ headers' = hs
                /\ column_map' = BuildColumnMap(hs, 1, column_map)
                /\ country_names' =
                      country_names \o [i \in DOMAIN kept |-> kept[i][1]]
                /\ regional_indicators' =
                      regional_indicators
                          \o [i \in DOMAIN kept |-> kept[i][2]]
                /\ IF Ragged(rows)
                   THEN \* np.array(rows) raises ValueError (numpy >= 1.24);
                        \* older builds make a 1-D object array and the
                        \* print's shape[1] raises IndexError.
                        /\ pc' = "failed"
                        /\ \E exc \in {"ValueError", "IndexError"} :
                              /\ result' = Raised("load_data", <<>>, exc)
                              /\ data' = IF exc = "ValueError" THEN None
                                         ELSE [shape |-> <<Len(rows)>>,
                                               cells |-> rows]
                   ELSE /\ data' = np_array(rows)
                        /\ IF rows = <<>>
                           THEN \* the print reads self.data.shape[1]
                                /\ pc' = "failed"
                                /\ result' =
                                     Raised("load_data", <<>>, "IndexError")
                           ELSE \* load_data returns None
                                /\ pc' = "ready"
                                /\ result' = NoResult

(***************************************************************************)
(* Access to the matrix, as numpy indexes it.                              *)
(***************************************************************************)
RowCount == data.shape[1]

ColumnCount == data.shape[2]

\* self.column_map[column_name] raises KeyError for an unknown name.
HasColumn(column_name) == column_name \in DOMAIN column_map

\* A variant of get_column_index that skips one column instead of two.
get_column_index_skip1(column_name) == column_map[column_name] - 1

\* get_column_index: the raw header position less the identity columns.
get_column_index(column_name) == column_map[column_name] - IdentityColumns

\* numpy accepts an index c with -ColumnCount <= c < ColumnCount; a
\* negative index counts from the last column.  Any other raises IndexError.
ColInRange(c) == -ColumnCount <= c /\ c < ColumnCount

NormIdx(c) == IF c < 0 THEN c + ColumnCount ELSE c

\* self.data[:, col_idx]
Column(c) == [i \in 1..RowCount |-> data.cells[i][NormIdx(c) + 1]]

\* self.data[idx, col_idx], idx a 0-based row
Cell(idx, c) == data.cells[idx + 1][NormIdx(c) + 1]

\* The 1-based rows whose value is not missing, in row order.
RECURSIVE ValidRows(_, _)
ValidRows(values, i) ==
    IF i > Len(values) THEN <<>>
    ELSE (IF isnan(values[i]) THEN <<>> ELSE <<i>>)
            \o ValidRows(values, i + 1)

\* list.index(x): the 0-based position of the first element equal to x,
\* or -1 where Python raises ValueError.
RECURSIVE index(_, _, _)
index(list, x, i) ==
    IF i > Len(list) THEN -1
    ELSE IF list[i] = x THEN i - 1
    ELSE index(list, x, i + 1)

(***************************************************************************)
(* numpy reducers over a sequence of numbers.                              *)
(***************************************************************************)
\* np.mean: 0/0 = NaN on an empty sequence (a warning, no exception).
np_mean(xs) == RatDiv(RatSum(xs), Num(Len(xs)))

\* The square of np.std: the mean of the squared deviations from the mean.
np_var(xs) ==
    LET m == np_mean(xs)
        sq == [i \in DOMAIN xs |->
                 RatMul(RatSub(xs[i], m), RatSub(xs[i], m))]
    IN  np_mean(sq)

Perms(n) == {p \in [1..n -> 1..n] : \A i, j \in 1..n : p[i] = p[j] => i = j}

\* The orders np.argsort may return: every permutation that puts the values
\* in ascending order.  The default kind is quicksort, which is not stable,
\* so the order of equal values is any.
ArgSorts(xs) ==
    {p \in Perms(Len(xs)) :
        \A i, j \in 1..Len(xs) : i < j => ~RatLt(xs[p[j]], xs[p[i]])}

Sorted(xs) == LET p == CHOOSE q \in ArgSorts(xs) : TRUE
              IN  [i \in DOMAIN xs |-> xs[p[i]]]

\* np.median of a non-empty sequence without NaN; NaN on an empty one.
np_median(xs) ==
    LET n == Len(xs)
        s == Sorted(xs)
    IN  IF n = 0 THEN NaN
        ELSE IF n % 2 = 1 THEN s[(n + 1) \div 2]
        ELSE RatDiv(RatAdd(s[n \div 2], s[n \div 2 + 1]), Num(2))

\* np.min / np.max of a non-empty sequence without NaN.
np_min(xs) == CHOOSE x \in {xs[i] : i \in DOMAIN xs} :
                  \A j \in DOMAIN xs : ~RatLt(xs[j], x)

np_max(xs) == CHOOSE x \in {xs[i] : i \in DOMAIN xs} :
                  \A j \in DOMAIN xs : ~RatLt(x, xs[j])

Reverse(s) == [i \in DOMAIN s |-> s[Len(s) + 1 - i]]

\* s[:n] for n >= 0
Take(s, n) == SubSeq(s, 1, IF n < Len(s) THEN n ELSE Len(s))

(***************************************************************************)
(* The queries.  Each operator gives the outcome of one call on the loaded *)
(* dataset: [raised |-> the exception's name or "", value |-> the return]. *)
(***************************************************************************)
Raise(exc) == [raised |-> exc, value |-> <<>>]

Return(v) == [raised |-> "", value |-> v]

\* data[:, col_idx] without NaN
CleanColumn(col_idx) == SelectSeq(Column(col_idx), NotNaN)

get_basic_statistics(column_name) ==
    IF ~HasColumn(column_name) THEN Raise("KeyError")
    ELSE LET col_idx == get_column_index(column_name)
         IN  IF ~ColInRange(col_idx) THEN Raise("IndexError")
             ELSE LET clean_data == CleanColumn(col_idx)
                  IN  IF Len(clean_data) = 0
                      THEN \* np.mean, np.median and np.std give NaN with a
                           \* warning; np.min of a zero-size array raises.
                           Raise("ValueError")
                      ELSE Return([mean |-> np_mean(clean_data),
                                   median |-> np_median(clean_data),
                                   \* np.std, as its square
                                   std |-> np_var(clean_data),
                                   min |-> np_min(clean_data),
                                   max |-> np_max(clean_data),
                                   count |-> Len(clean_data)])

\* The (country, value) pairs of the valid rows in the order `order` gives.
Pairs(values, valid, order) ==
    [k \in DOMAIN order |->
        <<country_names[valid[order[k]]], values[valid[order[k]]]>>]

\* np.argsort(valid_values)[::-1][:n]
TopOrder(sorted_indices, n) == Take(Reverse(sorted_indices), n)

\* np.argsort(valid_values)[:n]
BottomOrder(sorted_indices, n) == Take(sorted_indices, n)

\* The set of outcomes of get_top_countries: one per order argsort may give.
get_top_countries(column_name, n) ==
    IF ~HasColumn(column_name) THEN {Raise("KeyError")}
    ELSE LET col_idx == get_column_index(column_name)
         IN  IF ~ColInRange(col_idx) THEN {Raise("IndexError")}
             ELSE LET values == Column(col_idx)
                      valid == ValidRows(values, 1)
                      valid_values == [k \in DOMAIN valid |-> values[valid[k]]]
                  IN  IF Len(country_names) /= RowCount
                      THEN \* np.array(self.country_names)[valid_indices]:
                           \* the boolean mask has one entry per matrix row
                           {Raise("IndexError")}
                      ELSE {Return(Pairs(values, valid, TopOrder(p, n))) :
                               p \in ArgSorts(valid_values)}

get_bottom_countries(column_name, n) ==
    IF ~HasColumn(column_name) THEN {Raise("KeyError")}
    ELSE LET col_idx == get_column_index(column_name)
         IN  IF ~ColInRange(col_idx) THEN {Raise("IndexError")}
             ELSE LET values == Column(col_idx)
                      valid == ValidRows(values, 1)
                      valid_values == [k \in DOMAIN valid |-> values[valid[k]]]
                  IN  IF Len(country_names) /= RowCount
                      THEN \* np.array(self.country_names)[valid_indices]:
                           \* the boolean mask has one entry per matrix row
                           {Raise("IndexError")}
                      ELSE {Return(Pairs(values, valid, BottomOrder(p, n))) :
                               p \in ArgSorts(valid_values)}

\* indices = [i for i, r in enumerate(self.regional_indicators) if r == region]
\* (as 1-based rows).
RECURSIVE RegionIndices(_, _)
RegionIndices(region, i) ==
    IF i > Len(regional_indicators) THEN <<>>
    ELSE (IF regional_indicators[i] = region THEN <<i>> ELSE <<>>)
            \o RegionIndices(region, i + 1)

filter_by_region(region) ==
    LET indices == RegionIndices(region, 1)
    IN  IF \E k \in DOMAIN indices : indices[k] > RowCount
        THEN \* self.data[indices, :] with a row the matrix does not have
             Raise("IndexError")
        ELSE Return([countries |-> [k \in DOMAIN indices |->
                                       country_names[indices[k]]],
                     data |-> [k \in DOMAIN indices |->
                                  data.cells[indices[k]]]])

compare_regions(column_name) ==
    IF ~HasColumn(column_name) THEN Raise("KeyError")
    ELSE LET col_idx == get_column_index(column_name)
             unique_regions == {regional_indicators[i] :
                                   i \in DOMAIN regional_indicators}
             clean_values(region) ==
                 LET region_data == filter_by_region(region).value.data
                 IN  SelectSeq([k \in DOMAIN region_data |->
                                   region_data[k][NormIdx(col_idx) + 1]],
                               NotNaN)
         IN  IF \/ \E r \in unique_regions :
                        filter_by_region(r).raised /= ""
                \/ unique_regions /= {} /\ ~ColInRange(col_idx)
             THEN \* from filter_by_region or from region_data[:, col_idx]
                  Raise("IndexError")
             ELSE Return([region \in {r \in unique_regions :
                                         Len(clean_values(r)) > 0} |->
                            [mean |-> np_mean(clean_values(region)),
                             median |-> np_median(clean_values(region)),
                             std |-> np_var(clean_values(region)),
                             count |-> Len(clean_values(region))]])

\* A variant of ZExceeds that compares with >= instead of >.
ZReaches(z2, threshold) ==
    /\ ~isnan(z2)
    /\ \/ RatLt(threshold, Num(0))
       \/ ~RatLt(z2, RatMul(threshold, threshold))

\* z_scores > threshold, the z-score given by its square: a NaN z-score
\* compares false; a z-score is never negative.
ZExceeds(z2, threshold) ==
    /\ ~isnan(z2)
    /\ \/ RatLt(threshold, Num(0))
       \/ RatGt(z2, RatMul(threshold, threshold))

\* The square of np.abs((value - mean) / std), std given by its square.
ZScore2(value, mean, var) ==
    RatDiv(RatMul(RatSub(value, mean), RatSub(value, mean)), var)

RECURSIVE OutlierRows(_, _, _)
OutlierRows(z2, threshold, i) ==
    IF i > Len(z2) THEN <<>>
    ELSE (IF ZExceeds(z2[i], threshold) THEN <<i>> ELSE <<>>)
            \o OutlierRows(z2, threshold, i + 1)

find_outliers(column_name, threshold) ==
    IF ~HasColumn(column_name) THEN Raise("KeyError")
    ELSE LET col_idx == get_column_index(column_name)
         IN  IF ~ColInRange(col_idx) THEN Raise("IndexError")
             ELSE LET values == Column(col_idx)
                      \* np.nanmean, np.nanstd: NaN cells left out; NaN (a
                      \* warning) when every cell is NaN.
                      mean == np_mean(SelectSeq(values, NotNaN))
                      var == np_var(SelectSeq(values, NotNaN))
                      z2 == [i \in DOMAIN values |->
                               ZScore2(values[i], mean, var)]
                      outlier_indices == OutlierRows(z2, threshold, 1)
                      kept == SelectSeq(outlier_indices,
                                        LAMBDA i : ~isnan(values[i]))
                  IN  Return([k \in DOMAIN kept |->
                                <<country_names[kept[k]], values[kept[k]],
                                  z2[kept[k]]>>])

get_country_data(country_name) ==
    LET idx == index(country_names, country_name, 1)
        features == SubSeq(headers, IdentityColumns + 1, Len(headers))
        keys == {"Country name", "Regional indicator"}
                    \cup {features[k] : k \in DOMAIN features}
    IN  IF idx < 0 THEN Return(<<>>)  \* except ValueError: return {}
        ELSE IF \E k \in DOMAIN features :
                    \/ ~ColInRange(get_column_index(features[k]))
                    \/ idx >= RowCount
        THEN Raise("IndexError")
        ELSE Return([key \in keys |->
                IF \E k \in DOMAIN features : features[k] = key
                THEN Cell(idx, get_column_index(key))
                ELSE IF key = "Country name" THEN country_name
                ELSE regional_indicators[idx + 1]])

\* A variant of CountLess that counts the values equal to v too (<=).
RECURSIVE CountLessOrEqual(_, _)
CountLessOrEqual(xs, v) ==
    IF xs = <<>> THEN 0
    ELSE (IF ~RatLt(v, Head(xs)) /\ ~isnan(v) THEN 1 ELSE 0)
            + CountLessOrEqual(Tail(xs), v)

\* np.sum(clean_values < country_value)
RECURSIVE CountLess(_, _)
CountLess(xs, v) ==
    IF xs = <<>> THEN 0
    ELSE (IF RatLt(Head(xs), v) THEN 1 ELSE 0) + CountLess(Tail(xs), v)

calculate_percentile_rank(country_name, column_name) ==
    IF ~HasColumn(column_name) THEN Raise("KeyError")
    ELSE LET col_idx == get_column_index(column_name)
             country_idx == index(country_names, country_name, 1)
         IN  IF country_idx < 0 THEN Raise("ValueError")
             ELSE IF ~ColInRange(col_idx) \/ country_idx >= RowCount
             THEN Raise("IndexError")
             ELSE LET country_value == Cell(country_idx, col_idx)
                      clean_values == CleanColumn(col_idx)
                  IN  Return(RatMul(RatDiv(Num(CountLess(clean_values,
                                                         country_value)),
                                           Num(Len(clean_values))),
                                    Num(100)))

(***************************************************************************)
(* The calls: any public method, with any argument, on a loaded dataset.   *)
(***************************************************************************)
ColumnArgs == {"Country name", "Unknown"} \cup FeatureNames

EntityArgs == EntityNames \cup {"Z"}

RegionArgs == RegionNames \cup {"R9"}

\* n: none, fewer than the rows, as many as the rows.
CountArgs == {0, 1, MaxRows}

Thresholds == {Num(-1), Num(0), Num(1)}

\* A call returns (or raises) to the caller, which holds the outcome until
\* it drops it and calls again.
Call(op, args, outcome) ==
    /\ result' = [op |-> op, args |-> args,
                  raised |-> outcome.raised, value |-> outcome.value]
    /\ pc' = "returned"
    /\ UNCHANGED <<dataset, loads>>

Discard ==
    /\ pc = "returned"
    /\ pc' = "ready"
    /\ result' = NoResult
    /\ UNCHANGED <<dataset, loads>>

GetColumnIndex ==
    /\ pc = "ready"
    /\ \E c \in ColumnArgs :
        Call("get_column_index", <<c>>,
             IF HasColumn(c) THEN Return(get_column_index(c))
             ELSE Raise("KeyError"))

GetBasicStatistics ==
    /\ pc = "ready"
    /\ \E c \in ColumnArgs :
        Call("get_basic_statistics", <<c>>, get_basic_statistics(c))

GetTopCountries ==
    /\ pc = "ready"
    /\ \E c \in ColumnArgs, n \in CountArgs :
        \E outcome \in get_top_countries(c, n) :
            Call("get_top_countries", <<c, n>>, outcome)

GetBottomCountries ==
    /\ pc = "ready"
    /\ \E c \in ColumnArgs, n \in CountArgs :
        \E outcome \in get_bottom_countries(c, n) :
            Call("get_bottom_countries", <<c, n>>, outcome)

FilterByRegion ==
    /\ pc = "ready"
    /\ \E r \in RegionArgs :
        Call("filter_by_region", <<r>>, filter_by_region(r))

CompareRegions ==
    /\ pc = "ready"
    /\ \E c \in ColumnArgs :
        Call("compare_regions", <<c>>, compare_regions(c))

FindOutliers ==
    /\ pc = "ready"
    /\ \E c \in ColumnArgs, t \in Thresholds :
        Call("find_outliers", <<c, t>>, find_outliers(c, t))

GetCountryData ==
    /\ pc = "ready"
    /\ \E e \in EntityArgs :
        Call("get_country_data", <<e>>, get_country_data(e))

CalculatePercentileRank ==
    /\ pc = "ready"
    /\ \E e \in EntityArgs, c \in ColumnArgs :
        Call("calculate_percentile_rank", <<e, c>>,
             calculate_percentile_rank(e, c))

Next ==
    \/ load_data
    \/ GetColumnIndex
    \/ GetBasicStatistics
    \/ GetTopCountries
    \/ GetBottomCountries
    \/ FilterByRegion
    \/ CompareRegions
    \/ FindOutliers
    \/ GetCountryData
    \/ CalculatePercentileRank
    \/ Discard

Spec == Init /\ [][Next]_vars

(***************************************************************************)
(* Vocabulary of the properties, stated on the dataset itself and not      *)
(* through the operators above.                                            *)
(***************************************************************************)
Loaded == pc \in {"ready", "returned"}

Rows == 1..Len(data.cells)

\* featureNames: the header fields after the identity columns.
featureNames == SubSeq(headers, IdentityColumns + 1, Len(headers))

\* The last position (1-based) of a name in the header.
LastPos(c) ==
    CHOOSE i \in DOMAIN headers :
        /\ headers[i] = c
        /\ \A k \in DOMAIN headers : headers[k] = c => k <= i

\* The matrix has a column for the name, counted from the first column or,
\* for an identity name, back from the last: the call reaches the data.
Resolves(c) ==
    /\ c \in {headers[i] : i \in DOMAIN headers}
    /\ -ColumnCount < LastPos(c) - IdentityColumns
    /\ LastPos(c) - IdentityColumns <= ColumnCount

\* The 1-based matrix column the name is read from.
ColumnOf(c) ==
    LET j == LastPos(c) - IdentityColumns
    IN  IF j >= 1 THEN j ELSE j + ColumnCount

ValueAt(i, c) == data.cells[i][ColumnOf(c)]

Missing(x) == x = NaN

\* The rows with a value for the column.
Present(c) == {i \in Rows : ~Missing(ValueAt(i, c))}

\* Order of two numbers that are not missing.
Less(a, b) == a.num * b.den < b.num * a.den

Known(e) == \E i \in Rows : country_names[i] = e

\* The first row of the entity.
RowOf(e) == CHOOSE i \in Rows :
                /\ country_names[i] = e
                /\ \A k \in Rows : country_names[k] = e => i <= k

\* The elements of a set of rows, in row order.
RECURSIVE Ascending(_)
Ascending(S) ==
    IF S = {} THEN <<>>
    ELSE LET m == CHOOSE x \in S : \A y \in S : x <= y
         IN  <<m>> \o Ascending(S \ {m})

\* The sum of f[x] over the x of S.
RECURSIVE SumOver(_, _)
SumOver(S, f) ==
    IF S = {} THEN 0
    ELSE LET x == CHOOSE y \in S : TRUE
         IN  f[x] + SumOver(S \ {x}, f)

(***************************************************************************)
(* C1.  get_top_countries / get_bottom_countries return the first n of the *)
(* non-missing (entity, value) pairs sorted by value descending / ascending *)
(* with a stable sort: entities of equal value keep their row order.       *)
(***************************************************************************)
\* The rows with a value, best first, rows of equal value in row order.
StableRanking(c, descending) ==
    CHOOSE s \in [1..Cardinality(Present(c)) -> Present(c)] :
        \A i, j \in DOMAIN s :
            i < j =>
                LET a == ValueAt(s[i], c)
                    b == ValueAt(s[j], c)
                IN  \/ (IF descending THEN Less(b, a) ELSE Less(a, b))
                    \/ (a = b /\ s[i] < s[j])

StablePairs(c, n, descending) ==
    LET s == StableRanking(c, descending)
        m == IF n < Len(s) THEN n ELSE Len(s)
    IN  [k \in 1..m |-> <<country_names[s[k]], ValueAt(s[k], c)>>]

\* C1: a ranking call returns the first n pairs of the stable ranking.
C1_StableRanking ==
    (/\ pc = "returned"
     /\ result.op \in {"get_top_countries", "get_bottom_countries"}
     /\ Resolves(result.args[1]))
    => /\ result.raised = ""
       /\ result.value = StablePairs(result.args[1], result.args[2],
                                     result.op = "get_top_countries")

(***************************************************************************)
(* C2.  get_basic_statistics on a column whose every cell is missing does  *)
(* not raise: it returns count = 0 and NaN for mean, median, std, min, max. *)
(***************************************************************************)
C2_EmptyStatistics ==
    (/\ pc = "returned"
     /\ result.op = "get_basic_statistics"
     /\ Resolves(result.args[1])
     /\ Present(result.args[1]) = {})
    => /\ result.raised = ""
       /\ result.value.count = 0
       /\ \A k \in {"mean", "median", "std", "min", "max"} :
              Missing(result.value[k])

(***************************************************************************)
(* C3.  calculate_percentile_rank of an existing entity whose cell is      *)
(* missing returns NaN, never a number in 0..100.                          *)
(***************************************************************************)
C3_MissingRankIsNaN ==
    (/\ pc = "returned"
     /\ result.op = "calculate_percentile_rank"
     /\ Known(result.args[1])
     /\ Resolves(result.args[2])
     /\ Missing(ValueAt(RowOf(result.args[1]), result.args[2])))
    => /\ result.raised = ""
       /\ Missing(result.value)

(***************************************************************************)
(* C4.  For an entity with a value v of the feature,                        *)
(* calculate_percentile_rank returns 100 * (the number of values of the    *)
(* column less than v) / (the number of values of the column); values      *)
(* equal to v are not counted, so the least value ranks 0, k entities tied *)
(* for the greatest of N values rank 100 * (N - k) / N, and of two values  *)
(* the lesser never ranks above the greater.                               *)
(***************************************************************************)
Below(c, v) == {i \in Present(c) : Less(ValueAt(i, c), v)}

Tied(c, v) == {i \in Present(c) : ValueAt(i, c) = v}

\* The number x is p / q.
IsRatio(x, p, q) == x.den > 0 /\ x.num * q = p * x.den

\* C4: the rank is 100 * |values below v| / |values|, ties not counted, and
\* it is monotonic in the value.
C4_PercentileRank ==
    /\ (/\ pc = "returned"
        /\ result.op = "calculate_percentile_rank"
        /\ Known(result.args[1])
        /\ Resolves(result.args[2])
        /\ ~Missing(ValueAt(RowOf(result.args[1]), result.args[2])))
       => LET c == result.args[2]
              v == ValueAt(RowOf(result.args[1]), c)
              N == Cardinality(Present(c))
              k == Cardinality(Tied(c, v))
          IN  /\ result.raised = ""
              /\ IsRatio(result.value, 100 * Cardinality(Below(c, v)), N)
              /\ (\A i \in Present(c) : ~Less(ValueAt(i, c), v))
                    => result.value = Num(0)
              /\ (\A i \in Present(c) : ~Less(v, ValueAt(i, c)))
                    => IsRatio(result.value, 100 * (N - k), N)
    /\ Loaded =>
          \A c \in ColumnArgs, e1, e2 \in EntityArgs :
              (/\ Resolves(c) /\ Known(e1) /\ Known(e2)
               /\ ~Missing(ValueAt(RowOf(e1), c))
               /\ ~Missing(ValueAt(RowOf(e2), c))
               /\ Less(ValueAt(RowOf(e1), c), ValueAt(RowOf(e2), c)))
              => ~Less(calculate_percentile_rank(e2, c).value,
                       calculate_percentile_rank(e1, c).value)

\* Two of three values are tied for the greatest: both rank 100 * 1 / 3.
C4_Witness ==
    /\ pc = "returned"
    /\ result.op = "calculate_percentile_rank"
    /\ result.raised = ""
    /\ Resolves(result.args[2])
    /\ Known(result.args[1])
    /\ Cardinality(Tied(result.args[2],
                        ValueAt(RowOf(result.args[1]), result.args[2]))) = 2
    /\ result.value = [num |-> 100, den |-> 3]

(***************************************************************************)
(* C5.  As claimed: after load the keys of column_map are exactly the      *)
(* feature names, and get_column_index of each key is the 0-based position *)
(* of that name in featureNames, a value in 0..featureCount-1.             *)
(***************************************************************************)
HeaderFields == {headers[i] : i \in DOMAIN headers}

\* C5 as claimed: the keys are the feature names, resolved into
\* 0..featureCount-1.
C5_KeysAreFeatureNames ==
    (Loaded /\ Len(headers) > 2) =>
        /\ DOMAIN column_map = {featureNames[k] : k \in DOMAIN featureNames}
        /\ \A name \in DOMAIN column_map :
              /\ get_column_index(name) \in 0..(Len(featureNames) - 1)
              /\ featureNames[get_column_index(name) + 1] = name

(***************************************************************************)
(* C5, amended.  After load the keys of column_map are the header fields,  *)
(* the identity fields included; get_column_index of a key is the 0-based  *)
(* position of the name's last occurrence in the header, less 2, a value   *)
(* in -2..featureCount-1, and it fails with KeyError for any other name.   *)
(* In a header without repeated names every feature name resolves to its   *)
(* 0-based position in featureNames and the two identity fields resolve to *)
(* -2 and -1.                                                              *)
(***************************************************************************)
\* C5 amended: the keys are all header fields, each resolved to its last
\* header position less 2.
C5_ColumnIndex ==
    /\ Loaded =>
          /\ DOMAIN column_map = HeaderFields
          /\ \A name \in HeaderFields :
                /\ get_column_index(name) = (LastPos(name) - 1) - 2
                /\ get_column_index(name) \in (-2)..(Len(featureNames) - 1)
          /\ (\A i, j \in DOMAIN headers : headers[i] = headers[j] => i = j)
                => /\ \A k \in DOMAIN featureNames :
                          get_column_index(featureNames[k]) = k - 1
                   /\ \A i \in DOMAIN headers :
                          i <= 2 => get_column_index(headers[i]) = i - 3
    /\ (pc = "returned" /\ result.op = "get_column_index") =>
          IF result.args[1] \in HeaderFields
          THEN /\ result.raised = ""
               /\ result.value = LastPos(result.args[1]) - 3
          ELSE result.raised = "KeyError"

\* The second of two feature names resolves to offset 1, an identity name
\* to a negative offset.
C5_Witness ==
    /\ pc = "returned"
    /\ result.op = "get_column_index"
    /\ result.raised = ""
    /\ Len(featureNames) = 2
    /\ featureNames[1] /= featureNames[2]
    /\ result.args[1] = headers[1]
    /\ result.value = -2

(***************************************************************************)
(* C6.  In every state reached after construction, by any calls of the    *)
(* public methods (load_data among them), on any header and any data rows, *)
(* the matrix has shape len(entityNames) x len(featureNames),              *)
(* len(entityNames) = len(categoryLabels), and a row is admitted iff it    *)
(* has more than 2 fields.  (Stated for headers of the input format: two   *)
(* identity fields and at least one feature name.)                         *)
(***************************************************************************)
C6_MatrixShape ==
    (Loaded /\ Len(headers) > 2) =>
        LET admitted == SelectSeq(Tail(csv_file.records),
                                  LAMBDA r : Len(r) > 2)
        IN  /\ Len(country_names) = Len(regional_indicators)
            /\ Len(country_names) = RowCount
            /\ Len(featureNames) = ColumnCount
            /\ Len(country_names) = Len(admitted)
            /\ \A i \in DOMAIN admitted :
                  /\ country_names[i] = admitted[i][1]
                  /\ regional_indicators[i] = admitted[i][2]

(***************************************************************************)
(* C7.  Loading fails only when the source cannot be opened or has no      *)
(* header: every readable source with a header row is loaded without       *)
(* raising.  (Stated for headers of the input format: at least 3 fields.)  *)
(***************************************************************************)
C7_LoadFailsOnlyWithoutHeader ==
    pc = "failed" =>
        \/ ~csv_file.readable
        \/ csv_file.records = <<>>
        \/ Len(csv_file.records[1]) <= 2

(***************************************************************************)
(* C8.  get_country_data never fails on an entity: for an unknown name it  *)
(* returns the empty mapping, otherwise the two identity fields and every  *)
(* feature's value from the first row of that name;                        *)
(* calculate_percentile_rank on an unknown name fails.  (Stated for        *)
(* headers without a repeated name, where every feature has one value.)    *)
(***************************************************************************)
C8_EntityRecord ==
    /\ (/\ pc = "returned"
        /\ result.op = "get_country_data"
        /\ \A i, j \in DOMAIN headers : headers[i] = headers[j] => i = j) =>
          /\ result.raised = ""
          /\ IF ~Known(result.args[1]) THEN result.value = <<>>
             ELSE LET r == RowOf(result.args[1])
                  IN  /\ DOMAIN result.value =
                            {"Country name", "Regional indicator"}
                                \cup {featureNames[k] :
                                         k \in DOMAIN featureNames}
                      /\ result.value["Country name"] = result.args[1]
                      /\ result.value["Regional indicator"] =
                            regional_indicators[r]
                      /\ \A k \in DOMAIN featureNames :
                            result.value[featureNames[k]] = data.cells[r][k]
    /\ (/\ pc = "returned"
        /\ result.op = "calculate_percentile_rank"
        /\ ~Known(result.args[1])) => result.raised /= ""

(***************************************************************************)
(* C9.  The results of filter_by_region over the labels partition the      *)
(* dataset: the rows returned for two different labels are disjoint, every *)
(* row is returned for exactly one label, its own; each result keeps the   *)
(* row order and each row's full numeric row; a label that occurs nowhere  *)
(* gives an empty result and no error.  (The results are stated for        *)
(* headers of the input format.)                                           *)
(***************************************************************************)
Labels == {regional_indicators[i] : i \in DOMAIN regional_indicators}

\* The rows filter_by_region selects for a label.
Selected(label) ==
    {RegionIndices(label, 1)[k] : k \in DOMAIN RegionIndices(label, 1)}

\* C9: every row is selected for its own label and no other, and a result
\* is the rows of the label in row order with their numeric rows.
C9_RegionPartition ==
    /\ Loaded =>
          /\ \A i \in Rows :
                {l \in Labels \cup RegionArgs : i \in Selected(l)}
                    = {regional_indicators[i]}
          /\ \A l1, l2 \in Labels \cup RegionArgs :
                l1 /= l2 => Selected(l1) \cap Selected(l2) = {}
    /\ (/\ pc = "returned"
        /\ result.op = "filter_by_region"
        /\ Len(headers) > 2) =>
          LET rows == Ascending({i \in Rows :
                                   regional_indicators[i] = result.args[1]})
          IN  /\ result.raised = ""
              /\ result.value.countries =
                    [k \in DOMAIN rows |-> country_names[rows[k]]]
              /\ result.value.data =
                    [k \in DOMAIN rows |-> data.cells[rows[k]]]
              /\ result.args[1] \notin Labels =>
                    /\ result.value.countries = <<>>
                    /\ result.value.data = <<>>

(***************************************************************************)
(* C10.  find_outliers returns, in row order, exactly the entities with a  *)
(* value whose z = |value - mean| / std exceeds the threshold, mean and    *)
(* std taken over the values that are not missing; when std is 0 (all      *)
(* values equal) every z is undefined and the result is empty for every    *)
(* threshold, also 0 and negative ones, and no error is raised.            *)
(*                                                                         *)
(* With N values of sum S, D(i) = N * v(i) - S and Q the sum of the D(i)^2, *)
(* mean = S / N, std^2 = Q / N^3 and z(i)^2 = N * D(i)^2 / Q; for a        *)
(* threshold t >= 0, z(i) > t iff N * D(i)^2 > t^2 * Q, and for t < 0      *)
(* every defined z exceeds t.  (The cells of the model are integers.)      *)
(***************************************************************************)
Deviation(c, i) ==
    Cardinality(Present(c)) * ValueAt(i, c).num
        - SumOver(Present(c), [j \in Present(c) |-> ValueAt(j, c).num])

SquaredDeviations(c) ==
    SumOver(Present(c),
            [j \in Present(c) |-> Deviation(c, j) * Deviation(c, j)])

Outliers(c, t) ==
    {i \in Present(c) :
        /\ SquaredDeviations(c) > 0
        /\ \/ t.num < 0
           \/ Cardinality(Present(c)) * Deviation(c, i) * Deviation(c, i)
                  * t.den * t.den
                > t.num * t.num * SquaredDeviations(c)}

\* C10: the result is the rows of Outliers in row order, each with its
\* name, value and z^2; it is empty when all values are equal.
C10_Outliers ==
    (/\ pc = "returned"
     /\ result.op = "find_outliers"
     /\ Resolves(result.args[1]))
    => LET c == result.args[1]
           t == result.args[2]
           rows == Ascending(Outliers(c, t))
       IN  /\ result.raised = ""
           /\ Len(result.value) = Len(rows)
           /\ \A k \in DOMAIN rows :
                 /\ result.value[k][1] = country_names[rows[k]]
                 /\ result.value[k][2] = ValueAt(rows[k], c)
                 /\ IsRatio(result.value[k][3],
                            Cardinality(Present(c)) * Deviation(c, rows[k])
                                * Deviation(c, rows[k]),
                            SquaredDeviations(c))
           /\ SquaredDeviations(c) = 0 => result.value = <<>>

\* A column of two or more equal values and a negative threshold: std is 0
\* and nothing is returned.
C10_Witness ==
    /\ pc = "returned"
    /\ result.op = "find_outliers"
    /\ Resolves(result.args[1])
    /\ Cardinality(Present(result.args[1])) >= 2
    /\ SquaredDeviations(result.args[1]) = 0
    /\ result.args[2].num < 0
    /\ result.raised = ""
    /\ result.value = <<>>

\* Rows are flagged, a row with a missing cell between them is not.
C10_OutlierFound ==
    /\ pc = "returned"
    /\ result.op = "find_outliers"
    /\ Resolves(result.args[1])
    /\ result.args[2] = Num(1)
    /\ Len(result.value) = 1
    /\ Cardinality(Present(result.args[1])) = 3

=============================================================================
